---- MODULE Spec2Model ----
(***************************************************************************)
(* A model of lib/vm/src/table.rs: the Table trait (with its provided      *)
(* method copy) and its implementation LinearTable.                        *)
(*                                                                         *)
(* Two table slots, "A" and "B", are constructed by new / from_definition  *)
(* and then driven by size, grow, get, set, copy and vmtable.  Spec drives *)
(* slot "A" through every operation; SpecCopy drives both slots through    *)
(* set and copy.  In both every call runs to its return without            *)
(* interleaving, so an action is one whole call.  A call is an operator    *)
(* from the state it is made in to the state it leaves and the value it    *)
(* returns; the action of the call installs that state.  The claims are    *)
(* invariants: in every reachable state, every call of the operation       *)
(* leaves the state and returns the value the claim says.                  *)
(*                                                                         *)
(* SpecThreads and SpecFair share the two tables between two threads,      *)
(* whose calls go step by step: each lock(), each stretch of work under    *)
(* the lock and each read made without it is a step, and the threads'      *)
(* steps interleave.  SpecThreads adds compiled code's lock-free reads of  *)
(* the definition; SpecFair states the fairness of the scheduling.         *)
(*                                                                         *)
(* u32 is modelled with U32Bits bits instead of 32 (the model checker's    *)
(* integers are 32 bit signed): U32_MAX plays the part of u32::MAX, and    *)
(* the inputs include U32_MAX so that checked_add overflows.               *)
(***************************************************************************)
EXTENDS Integers, Sequences, FiniteSets, TLC

\* ------------------------------------------------------------------ bounds
\* The longest backing vector the model lets grow build.
MaxLen == 3
\* The largest minimum a table description is given.
MaxMin == 1
\* Reference payloads are 0 (null) .. MaxRef.
MaxRef == 1
\* Width of the model's u32.
U32Bits == 4

U32_MAX == 2^U32Bits - 1

\* ------------------------------------------------------------------ values
Tables == {"A", "B"}

\* Option<u32>::None of TableType.maximum / LinearTable.maximum.
NoMax == -1

\* wasmer_types::Type, as far as table.rs distinguishes it: the two reference
\* kinds and one representative of every other value type.
ValTypes == {"FuncRef", "ExternRef", "I32"}

\* The bits of the null pointers VMFuncRef::null() and VMExternRef::null().
VMFuncRef_null == 0
VMExternRef_null == 0

\* Payload bits of a VMFuncRef / VMExternRef.
Refs == 0..MaxRef

\* enum TableReference { ExternRef(VMExternRef), FuncRef(VMFuncRef) }
TableReference == [tag : {"ExternRef", "FuncRef"}, ref : Refs]

\* union TableElement: untagged, so an element is just its bits.
\* impl From<TableReference> for TableElement stores the payload of either arm.
From_TableReference(other) == other.ref

\* impl Default for TableElement: func_ref: VMFuncRef::null(), for both kinds.
TableElement_default == VMFuncRef_null

\* The null reference of a table kind, as get would hand it out.
NullReference(ty) ==
    IF ty = "ExternRef" THEN [tag |-> "ExternRef", ref |-> VMExternRef_null]
    ELSE [tag |-> "FuncRef", ref |-> VMFuncRef_null]

\* Addresses.  A Vec buffer is named by the table it belongs to and a
\* generation that changes whenever a reallocation moves it.
NullPtr == [region |-> "null", gen |-> 0]
BufPtr(t, g) == [region |-> t, gen |-> g]

\* struct VMTableDefinition { base, current_elements }
\* The location an instance supplies holds whatever it held before.
UninitDefinition == [base |-> NullPtr, current_elements |-> U32_MAX]

\* Where a VMTableDefinition can live: in VM memory (one location per table
\* slot) or in the Box a host-owned table allocates.
VMLoc(t) == <<"vm", t>>
BoxLoc(t) == <<"box", t>>
NoLoc == <<"none", "none">>
DefinitionAddrs == {VMLoc(t) : t \in Tables} \cup {BoxLoc(t) : t \in Tables}

\* struct TableType { ty, minimum, maximum }
NoTable == [ty |-> "none", minimum |-> 0, maximum |-> NoMax]

\* What a call hands back: Some(n) / None, Ok(()) / Ok(reference) /
\* Err(trap code) / Err(string), a pointer, or a panic.
Ret(k, n, code) == [k |-> k, n |-> n, code |-> code, ptr |-> NoLoc]
RetSome(n) == Ret("Some", n, "")
RetNone == Ret("None", 0, "")
RetOk == Ret("Ok", 0, "")
RetRef(tag, bits) == Ret("Ref", bits, tag)
RetTrap(code) == Ret("Trap", 0, code)
RetErr(msg) == Ret("Err", 0, msg)
RetU32(n) == Ret("U32", n, "")
RetPtr(addr) == [Ret("Ptr", 0, "") EXCEPT !.ptr = addr]
RetPanic(why) == Ret("Panic", 0, why)

VARIABLES
    table,                \* LinearTable.table: the TableType, NoTable before construction
    maximum,              \* LinearTable.maximum
    vec,                  \* LinearTable.vec: the Vec<TableElement> inside the Mutex
    vec_ptr,              \* vec.as_mut_ptr(): where the Vec's buffer is now
    poisoned,             \* the Mutex's poison flag
    vm_table_definition,  \* LinearTable.vm_table_definition: ownership and address
    mem,                  \* the VMTableDefinition stored at each address
    lock,                 \* the Mutex of each table: the thread holding it, or NoThread
    pc,                   \* where each thread is in the call it is making
    frame                 \* the arguments and locals of each thread's call

vars == <<table, maximum, vec, vec_ptr, poisoned, vm_table_definition, mem,
          lock, pc, frame>>

\* The threads that share the tables.
Threads == {"t1", "t2"}
NoThread == "none"

\* A thread that is in no call.
IdleFrame ==
    [op |-> "none", t |-> "A", src_table |-> "A", arg |-> 0, src_index |-> 0,
     len |-> 0, k |-> 0, reference |-> [tag |-> "FuncRef", ref |-> 0], n |-> 0]

Init ==
    /\ table = [t \in Tables |-> NoTable]
    /\ maximum = [t \in Tables |-> NoMax]
    /\ vec = [t \in Tables |-> <<>>]
    /\ vec_ptr = [t \in Tables |-> NullPtr]
    /\ poisoned = [t \in Tables |-> FALSE]
    /\ vm_table_definition = [t \in Tables |-> [own |-> "none", addr |-> NoLoc]]
    /\ mem = [a \in DefinitionAddrs |-> UninitDefinition]
    /\ lock = [t \in Tables |-> NoThread]
    /\ pc = [th \in Threads |-> "idle"]
    /\ frame = [th \in Threads |-> IdleFrame]

Live(t) == table[t] # NoTable

\* What a call leaves behind: the vectors, their buffers, the poison flags and
\* the stored definitions, with the value it returns.
Outcome(V, Q, P, M, r) == [vec |-> V, vec_ptr |-> Q, poisoned |-> P, mem |-> M, ret |-> r]

\* The call changed nothing and returned r.
Untouched(r) == Outcome(vec, vec_ptr, poisoned, mem, r)

\* The state takes the outcome of a call on an existing table.
Install(o) ==
    /\ vec' = o.vec
    /\ vec_ptr' = o.vec_ptr
    /\ poisoned' = o.poisoned
    /\ mem' = o.mem
    /\ UNCHANGED <<table, maximum, vm_table_definition, lock, pc, frame>>

\* ------------------------------------------------------------ construction
\* A check of the description that forgets to compare maximum with minimum.
description_error_type_only(ty, min, max) ==
    IF ty \notin {"FuncRef", "ExternRef"}
    THEN "tables of types other than funcref or externref"
    ELSE ""

\* new_inner's two checks of the description (the match on table.ty and the
\* comparison of maximum with minimum), in the order the code makes them:
\* "" when the description passes, else the error.
description_error(ty, min, max) ==
    IF ty \notin {"FuncRef", "ExternRef"}
    THEN "tables of types other than funcref or externref"
    ELSE IF max # NoMax /\ max < min
    THEN "Table minimum is larger than maximum"
    ELSE ""

\* A vector allocated one element short.
initial_vec_short(min) == [i \in 1..(min - 1) |-> TableElement_default]

\* vec![TableElement::default(); table_minimum]
initial_vec(min) == [i \in 1..min |-> TableElement_default]

\* unsafe fn new_inner(table, style, vm_table_location), for table slot t;
\* loc is NoLoc for None.  Result: Err(string) and nothing else, or Ok with
\* the fields of the new LinearTable (its Mutex new, so not poisoned) and the
\* definition it wrote at addr.
\* (usize::try_from(minimum) cannot fail where usize has 32 bits or more.)
new_inner(t, ty, min, max, loc) ==
    LET err == description_error(ty, min, max)
        base == BufPtr(t, 0)
        addr == IF loc # NoLoc THEN loc ELSE BoxLoc(t)
    IN  IF err # ""
        THEN [ret |-> RetErr(err), table |-> NoTable, maximum |-> NoMax,
              vec |-> <<>>, vec_ptr |-> NullPtr, poisoned |-> FALSE,
              vm_table_definition |-> [own |-> "none", addr |-> NoLoc],
              mem |-> mem]
        ELSE [ret |-> RetOk,
              table |-> [ty |-> ty, minimum |-> min, maximum |-> max],
              maximum |-> max,
              vec |-> initial_vec(min),
              vec_ptr |-> base,
              poisoned |-> FALSE,
              vm_table_definition |->
                  [own |-> IF loc # NoLoc THEN "VMOwned" ELSE "HostOwned",
                   addr |-> addr],
              mem |-> [mem EXCEPT ![addr] =
                          [base |-> base, current_elements |-> min]]]

\* A constructor call builds the table of slot t, once; on Err there is no
\* table and the slot stays empty.
Construct(t, ty, min, max, loc) ==
    /\ ~Live(t)
    /\ LET n == new_inner(t, ty, min, max, loc)
       IN  /\ table' = [table EXCEPT ![t] = n.table]
           /\ maximum' = [maximum EXCEPT ![t] = n.maximum]
           /\ vec' = [vec EXCEPT ![t] = n.vec]
           /\ vec_ptr' = [vec_ptr EXCEPT ![t] = n.vec_ptr]
           /\ vm_table_definition' = [vm_table_definition EXCEPT ![t] =
                                         n.vm_table_definition]
           /\ poisoned' = [poisoned EXCEPT ![t] = n.poisoned]
           /\ mem' = n.mem
           /\ UNCHANGED <<lock, pc, frame>>

\* pub fn new(table, style)
New(t, ty, min, max) == Construct(t, ty, min, max, NoLoc)

\* pub unsafe fn from_definition(table, style, vm_table_location)
FromDefinition(t, ty, min, max, loc) == Construct(t, ty, min, max, loc)

\* ------------------------------------------------------------- LinearTable
\* An accessor that always resolves to the table's own Box.
get_vm_table_definition_boxed(t) == BoxLoc(t)

\* unsafe fn get_vm_table_definition(&self)
get_vm_table_definition(t) == vm_table_definition[t].addr

\* fn size(&self): current_elements read through the definition pointer,
\* without taking the lock.
size(t) == mem[get_vm_table_definition(t)].current_elements

\* size() in the state an outcome o leaves.
size_after(o, t) == o.mem[get_vm_table_definition(t)].current_elements

\* An addition that wraps modulo 2^32 instead of reporting the overflow.
checked_add_wrapping(a, b) == (a + b) % (U32_MAX + 1)

\* u32::checked_add; -1 is None.
checked_add(a, b) == IF a + b > U32_MAX THEN -1 ELSE a + b

\* A test of the maximum that lets the table pass it by one element.
over_maximum_by_two(max, new_len) == max # NoMax /\ new_len > max + 1

\* self.maximum.map_or(false, |max| new_len > max)
over_maximum(max, new_len) == max # NoMax /\ new_len > max

\* A resize that rebuilds the vector from the fill value alone.
resize_forgetting(v, new_len, value) == [i \in 1..new_len |-> value]

\* Vec::resize(new_len, value)
resize(v, new_len, value) ==
    IF new_len <= Len(v) THEN SubSeq(v, 1, new_len)
    ELSE v \o [i \in 1..(new_len - Len(v)) |-> value]

\* td.current_elements = new_len, on the stored definitions M.
write_current_elements(M, addr, new_len) ==
    [M EXCEPT ![addr].current_elements = new_len]

\* A grow that leaves base pointing at the buffer the Vec had before.
write_base_skipped(M, addr, ptr) == M

\* td.base = vec.as_mut_ptr() as _, on the stored definitions M.
write_base(M, addr, ptr) == [M EXCEPT ![addr].base = ptr]

\* fn grow(&self, delta).  lock().unwrap() panics on a poisoned Mutex.  A
\* resize that lengthens the Vec may or may not move its buffer: moved.
grow(t, delta, moved) ==
    IF poisoned[t] THEN Untouched(RetPanic("PoisonError"))
    ELSE LET sz == size(t)
             new_len == checked_add(sz, delta)
         IN  IF new_len = -1 THEN Untouched(RetNone)
             ELSE IF over_maximum(maximum[t], new_len) THEN Untouched(RetNone)
             ELSE LET ptr == IF moved /\ new_len > Len(vec[t])
                             THEN BufPtr(t, vec_ptr[t].gen + 1)
                             ELSE vec_ptr[t]
                  IN  Outcome([vec EXCEPT ![t] =
                                  resize(vec[t], new_len, TableElement_default)],
                              [vec_ptr EXCEPT ![t] = ptr],
                              poisoned,
                              write_base(
                                  write_current_elements(
                                      mem, get_vm_table_definition(t), new_len),
                                  get_vm_table_definition(t), ptr),
                              RetSome(sz))

\* The guard on the length bounds the model, not the code.
Grow(t, delta) ==
    /\ Live(t)
    /\ \E moved \in BOOLEAN :
          LET o == grow(t, delta, moved)
          IN  /\ Len(o.vec[t]) <= MaxLen
              /\ Install(o)

\* fn size(&self), called on its own.
Size(t) ==
    /\ Live(t)
    /\ Install(Untouched(RetU32(size(t))))

\* fn vmtable(&self): locks, then returns the definition's address.
vmtable(t) ==
    IF poisoned[t] THEN Untouched(RetPanic("PoisonError"))
    ELSE Untouched(RetPtr(get_vm_table_definition(t)))

Vmtable(t) ==
    /\ Live(t)
    /\ Install(vmtable(t))

\* fn get(&self, index), on the table types T, vectors V and poison flags P:
\* what it returns.  Vec::get(index as usize) is None from index = len on.
get(T, V, P, t, index) ==
    IF P[t] THEN RetPanic("PoisonError")
    ELSE IF index < Len(V[t])
    THEN IF T[t].ty = "ExternRef" THEN RetRef("ExternRef", V[t][index + 1])
         ELSE IF T[t].ty = "FuncRef" THEN RetRef("FuncRef", V[t][index + 1])
         ELSE RetPanic("todo")
    ELSE RetTrap("TableAccessOutOfBounds")

\* The match on (self.table.ty, reference) in set: does the reference's arm
\* fit the table's type?
arm_matches(ty, reference) ==
    \/ ty = "ExternRef" /\ reference.tag = "ExternRef"
    \/ ty = "FuncRef" /\ reference.tag = "FuncRef"

\* fn set(&self, index, reference), on the table types T, vectors V and
\* poison flags P: the vectors and flags it leaves, and what it returns.
\* todo!() panics while the guard is alive, and a guard dropped by a panic
\* poisons the Mutex.
set(T, V, P, t, index, reference) ==
    IF P[t] THEN [vec |-> V, poisoned |-> P, ret |-> RetPanic("PoisonError")]
    ELSE IF index < Len(V[t])
    THEN IF arm_matches(T[t].ty, reference)
         THEN [vec |-> [V EXCEPT ![t][index + 1] = From_TableReference(reference)],
               poisoned |-> P, ret |-> RetOk]
         ELSE [vec |-> V, poisoned |-> [P EXCEPT ![t] = TRUE],
               ret |-> RetPanic("todo")]
    ELSE [vec |-> V, poisoned |-> P, ret |-> RetTrap("TableAccessOutOfBounds")]

Get(t, index) ==
    /\ Live(t)
    /\ Install(Untouched(get(table, vec, poisoned, t, index)))

Set(t, index, reference) ==
    /\ Live(t)
    /\ LET w == set(table, vec, poisoned, t, index, reference)
       IN  Install(Outcome(w.vec, vec_ptr, w.poisoned, mem, w.ret))

\* ------------------------------------------------------------- Table::copy
\* The range test with a sum that wraps instead of a checked one.
range_out_of_bounds_wrapping(index, len, sz) ==
    (index + len) % (U32_MAX + 1) > sz

\* src_index.checked_add(len).map_or(true, |n| n > src_table.size()), and the
\* same test of the destination range.
range_out_of_bounds(index, len, sz) ==
    LET n == checked_add(index, len) IN n = -1 \/ n > sz

\* A loop that reads each element one slot further on.
copy_pairs_shifted(dst_index, src_index, len) ==
    IF dst_index <= src_index
    THEN [k \in 1..len |-> <<src_index + k, dst_index + k - 1>>]
    ELSE [k \in 1..len |-> <<src_index + len - k + 1, dst_index + len - k>>]

\* The (s, d) pairs the loop visits, in its order: both ranges front to back
\* when dst_index <= src_index, both reversed otherwise.
copy_pairs(dst_index, src_index, len) ==
    IF dst_index <= src_index
    THEN [k \in 1..len |-> <<src_index + k - 1, dst_index + k - 1>>]
    ELSE [k \in 1..len |-> <<src_index + len - k, dst_index + len - k>>]

\* self.set(d, src_table.get(s).unwrap())? for the pairs from the i-th on.
\* unwrap panics on an Err, ? returns set's Err, a panic of get or set
\* ends the loop.
RECURSIVE copy_loop(_, _, _, _, _, _)
copy_loop(V, P, t, src_table, pairs, i) ==
    IF i > Len(pairs) THEN [vec |-> V, poisoned |-> P, ret |-> RetOk]
    ELSE LET g == get(table, V, P, src_table, pairs[i][1]) IN
         IF g.k = "Panic" THEN [vec |-> V, poisoned |-> P, ret |-> g]
         ELSE IF g.k = "Trap" THEN [vec |-> V, poisoned |-> P, ret |-> RetPanic("unwrap")]
         ELSE LET w == set(table, V, P, t, pairs[i][2], [tag |-> g.code, ref |-> g.n]) IN
              IF w.ret.k # "Ok" THEN w
              ELSE copy_loop(w.vec, w.poisoned, t, src_table, pairs, i + 1)

\* A copy that tests the destination range before the source range.
copy_destination_first(t, src_table, dst_index, src_index, len) ==
    IF range_out_of_bounds(dst_index, len, size(t))
    THEN Untouched(RetTrap("TableSetterOutOfBounds"))
    ELSE IF range_out_of_bounds(src_index, len, size(src_table))
    THEN Untouched(RetTrap("TableAccessOutOfBounds"))
    ELSE LET w == copy_loop(vec, poisoned, t, src_table,
                            copy_pairs(dst_index, src_index, len), 1)
         IN  Outcome(w.vec, vec_ptr, w.poisoned, mem, w.ret)

\* fn copy(&self, src_table, dst_index, src_index, len)
copy(t, src_table, dst_index, src_index, len) ==
    IF range_out_of_bounds(src_index, len, size(src_table))
    THEN Untouched(RetTrap("TableAccessOutOfBounds"))
    ELSE IF range_out_of_bounds(dst_index, len, size(t))
    THEN Untouched(RetTrap("TableSetterOutOfBounds"))
    ELSE LET w == copy_loop(vec, poisoned, t, src_table,
                            copy_pairs(dst_index, src_index, len), 1)
         IN  Outcome(w.vec, vec_ptr, w.poisoned, mem, w.ret)

Copy(t, src_table, dst_index, src_index, len) ==
    /\ Live(t) /\ Live(src_table)
    /\ Install(copy(t, src_table, dst_index, src_index, len))

\* ------------------------------------------------------------------ inputs
\* Descriptions: every type, minimum and maximum the bounds allow, a maximum
\* below the minimum among them.
Minimums == 0..MaxMin
Maximums == {NoMax} \cup 0..MaxLen
\* u32 arguments: every index and length up to one past the longest vector,
\* and u32::MAX.
U32Inputs == 0..MaxLen \cup {U32_MAX}

\* Spec drives one table, slot "A", through every operation; copy is the
\* copy of the table into itself.
Next ==
    \/ \E ty \in ValTypes, min \in Minimums, max \in Maximums :
          New("A", ty, min, max)
    \/ \E ty \in ValTypes, min \in Minimums, max \in Maximums :
          FromDefinition("A", ty, min, max, VMLoc("A"))
    \/ Size("A")
    \/ \E delta \in U32Inputs : Grow("A", delta)
    \/ \E index \in U32Inputs : Get("A", index)
    \/ \E index \in U32Inputs, reference \in TableReference :
          Set("A", index, reference)
    \/ \E dst_index \in U32Inputs, src_index \in U32Inputs, len \in U32Inputs :
          Copy("A", "A", dst_index, src_index, len)
    \/ Vmtable("A")

Spec == Init /\ [][Next]_vars

\* SpecCopy drives two tables of different lengths, so that copy runs between
\* tables as well as within one: slot "A" is built with MaxMin elements,
\* slot "B" with MaxMin + 1, by either constructor and of either reference
\* kind each.
CopyMinimum(t) == IF t = "A" THEN MaxMin ELSE MaxMin + 1
CopyInputs == 0..(MaxMin + 1) \cup {U32_MAX}
\* The references set stores there: of either kind, null or the last payload.
CopyReferences == {r \in TableReference : r.ref \in {VMFuncRef_null, MaxRef}}

NextCopy ==
    \/ \E t \in Tables, ty \in {"FuncRef", "ExternRef"} :
          New(t, ty, CopyMinimum(t), NoMax)
    \/ \E t \in Tables, ty \in {"FuncRef", "ExternRef"} :
          FromDefinition(t, ty, CopyMinimum(t), NoMax, VMLoc(t))
    \/ \E t \in Tables, index \in CopyInputs, reference \in CopyReferences :
          Set(t, index, reference)
    \/ \E t \in Tables, src_table \in Tables, dst_index \in CopyInputs,
          src_index \in CopyInputs, len \in CopyInputs :
          Copy(t, src_table, dst_index, src_index, len)

SpecCopy == Init /\ [][NextCopy]_vars

\* ----------------------------------------------------------------- threads
\* SpecThreads: the threads call into the two tables at once.  A call goes by
\* steps, and other threads run between them: entering the call, taking the
\* lock, the work done under the lock up to the drop of the guard, and every
\* read made without the lock are steps of their own; grow's resize and its
\* two writes of the definition are three steps.

\* What every thread shares.
shared == <<table, maximum, vec, vec_ptr, poisoned, vm_table_definition, mem>>

\* A guard that is never dropped.
unlock_forgotten(L, t) == L

\* The MutexGuard goes out of scope, at a return or in the unwinding of a
\* panic: the Mutex of table t is free again.
unlock(L, t) == [L EXCEPT ![t] = NoThread]

Goto(th, p, f) ==
    /\ pc' = [pc EXCEPT ![th] = p]
    /\ frame' = [frame EXCEPT ![th] = f]

\* The call ends, by a return or by a panic.
Return(th) == Goto(th, "idle", IdleFrame)

\* A thread enters a call, once both tables are built.
Enter(th, p, f) ==
    /\ pc[th] = "idle"
    /\ \A t \in Tables : Live(t)
    /\ Goto(th, p, f)
    /\ UNCHANGED <<shared, lock>>

CallSize(th, t) ==
    Enter(th, "size", [IdleFrame EXCEPT !.op = "size", !.t = t])

CallGrow(th, t, delta) ==
    Enter(th, "grow_lock", [IdleFrame EXCEPT !.op = "grow", !.t = t, !.arg = delta])

CallGet(th, t, index) ==
    Enter(th, "get_lock", [IdleFrame EXCEPT !.op = "get", !.t = t, !.arg = index])

CallSet(th, t, index, reference) ==
    Enter(th, "set_lock", [IdleFrame EXCEPT !.op = "set", !.t = t, !.arg = index,
                                            !.reference = reference])

CallVmtable(th, t) ==
    Enter(th, "vmtable_lock", [IdleFrame EXCEPT !.op = "vmtable", !.t = t])

CallCopy(th, t, src_table, dst_index, src_index, len) ==
    Enter(th, "copy_src", [IdleFrame EXCEPT !.op = "copy", !.t = t,
                                            !.src_table = src_table,
                                            !.arg = dst_index,
                                            !.src_index = src_index,
                                            !.len = len])

\* Where a thread is about to call self.vec.lock().
LockPcs == {"grow_lock", "get_lock", "set_lock", "vmtable_lock",
            "copy_get_lock", "copy_set_lock"}

\* The table whose Mutex that lock() is on: copy's get locks the source.
LockTable(th) ==
    IF pc[th] = "copy_get_lock" THEN frame[th].src_table ELSE frame[th].t

AfterLock(p) ==
    CASE p = "grow_lock" -> "grow_resize"
      [] p = "get_lock" -> "get"
      [] p = "set_lock" -> "set"
      [] p = "vmtable_lock" -> "vmtable"
      [] p = "copy_get_lock" -> "copy_get"
      [] p = "copy_set_lock" -> "copy_set"

\* self.vec.lock().unwrap(): waits until no thread holds the Mutex (its own
\* thread included: the Mutex is not reentrant).  On a poisoned Mutex lock()
\* is an Err that carries the guard, unwrap panics and the guard is dropped.
Lock(th) ==
    /\ pc[th] \in LockPcs
    /\ lock[LockTable(th)] = NoThread
    /\ IF poisoned[LockTable(th)]
       THEN Return(th) /\ UNCHANGED lock
       ELSE /\ lock' = [lock EXCEPT ![LockTable(th)] = th]
            /\ Goto(th, AfterLock(pc[th]), frame[th])
    /\ UNCHANGED shared

\* fn size(&self), called on its own: one read of current_elements.
SizeRead(th) ==
    /\ pc[th] = "size"
    /\ Return(th)
    /\ UNCHANGED <<shared, lock>>

\* grow, under the lock: size(), checked_add, the maximum, vec.resize.
GrowResize(th) ==
    /\ pc[th] = "grow_resize"
    /\ LET t == frame[th].t
           new_len == checked_add(size(t), frame[th].arg)
       IN  IF new_len = -1 \/ over_maximum(maximum[t], new_len)
           THEN /\ Return(th)
                /\ lock' = unlock(lock, t)
                /\ UNCHANGED shared
           ELSE /\ new_len <= MaxLen
                /\ \E moved \in BOOLEAN :
                      vec_ptr' = [vec_ptr EXCEPT ![t] =
                                     IF moved /\ new_len > Len(vec[t])
                                     THEN BufPtr(t, vec_ptr[t].gen + 1)
                                     ELSE vec_ptr[t]]
                /\ vec' = [vec EXCEPT ![t] =
                              resize(vec[t], new_len, TableElement_default)]
                /\ Goto(th, "grow_elements", [frame[th] EXCEPT !.n = new_len])
                /\ UNCHANGED <<table, maximum, poisoned, vm_table_definition,
                               mem, lock>>

\* td.current_elements = new_len
GrowElements(th) ==
    /\ pc[th] = "grow_elements"
    /\ mem' = write_current_elements(mem, get_vm_table_definition(frame[th].t),
                                     frame[th].n)
    /\ Goto(th, "grow_base", frame[th])
    /\ UNCHANGED <<table, maximum, vec, vec_ptr, poisoned, vm_table_definition,
                   lock>>

\* td.base = vec.as_mut_ptr(); Some(size), and the guard is dropped.
GrowBase(th) ==
    /\ pc[th] = "grow_base"
    /\ mem' = write_base(mem, get_vm_table_definition(frame[th].t),
                         vec_ptr[frame[th].t])
    /\ lock' = unlock(lock, frame[th].t)
    /\ Return(th)
    /\ UNCHANGED <<table, maximum, vec, vec_ptr, poisoned, vm_table_definition>>

\* get, under the lock.
GetBody(th) ==
    /\ pc[th] = "get"
    /\ lock' = unlock(lock, frame[th].t)
    /\ Return(th)
    /\ UNCHANGED shared

\* set, under the lock; the guard is dropped at the return and in the panic.
SetBody(th) ==
    /\ pc[th] = "set"
    /\ LET w == set(table, vec, poisoned, frame[th].t, frame[th].arg,
                    frame[th].reference)
       IN  /\ vec' = w.vec
           /\ poisoned' = w.poisoned
    /\ lock' = unlock(lock, frame[th].t)
    /\ Return(th)
    /\ UNCHANGED <<table, maximum, vec_ptr, vm_table_definition, mem>>

\* vmtable, under the lock.
VmtableBody(th) ==
    /\ pc[th] = "vmtable"
    /\ lock' = unlock(lock, frame[th].t)
    /\ Return(th)
    /\ UNCHANGED shared

\* copy's test of the source range, with src_table.size().
CopySrcCheck(th) ==
    /\ pc[th] = "copy_src"
    /\ IF range_out_of_bounds(frame[th].src_index, frame[th].len,
                              size(frame[th].src_table))
       THEN Return(th)
       ELSE Goto(th, "copy_dst", frame[th])
    /\ UNCHANGED <<shared, lock>>

\* copy's test of the destination range, with self.size(); an empty loop
\* returns Ok(()).
CopyDstCheck(th) ==
    /\ pc[th] = "copy_dst"
    /\ IF range_out_of_bounds(frame[th].arg, frame[th].len, size(frame[th].t))
       THEN Return(th)
       ELSE IF frame[th].len = 0
       THEN Return(th)
       ELSE Goto(th, "copy_get_lock", [frame[th] EXCEPT !.k = 1])
    /\ UNCHANGED <<shared, lock>>

\* The (s, d) pair of the k-th pass of the loop.
copy_pair(f) == copy_pairs(f.arg, f.src_index, f.len)[f.k]

\* src_table.get(s).unwrap(), under the source's lock: unwrap panics on Err.
CopyGet(th) ==
    /\ pc[th] = "copy_get"
    /\ LET g == get(table, vec, poisoned, frame[th].src_table,
                    copy_pair(frame[th])[1])
       IN  IF g.k = "Ref"
           THEN Goto(th, "copy_set_lock",
                     [frame[th] EXCEPT !.reference = [tag |-> g.code, ref |-> g.n]])
           ELSE Return(th)
    /\ lock' = unlock(lock, frame[th].src_table)
    /\ UNCHANGED shared

\* self.set(d, ..)?, under the destination's lock: ? returns an Err, a panic
\* ends the call, Ok goes on to the next pair.
CopySet(th) ==
    /\ pc[th] = "copy_set"
    /\ LET w == set(table, vec, poisoned, frame[th].t, copy_pair(frame[th])[2],
                    frame[th].reference)
       IN  /\ vec' = w.vec
           /\ poisoned' = w.poisoned
           /\ IF w.ret.k = "Ok" /\ frame[th].k < frame[th].len
              THEN Goto(th, "copy_get_lock", [frame[th] EXCEPT !.k = @ + 1])
              ELSE Return(th)
    /\ lock' = unlock(lock, frame[th].t)
    /\ UNCHANGED <<table, maximum, vec_ptr, vm_table_definition, mem>>

\* Compiled code's inlined bounds check: it reads the definition's two
\* fields without the lock, current_elements and then base.
CallReader(th, t) ==
    Enter(th, "read_elements", [IdleFrame EXCEPT !.op = "reader", !.t = t])

ReadElements(th) ==
    /\ pc[th] = "read_elements"
    /\ Goto(th, "read_base",
            [frame[th] EXCEPT !.n = mem[get_vm_table_definition(frame[th].t)]
                                       .current_elements])
    /\ UNCHANGED <<shared, lock>>

ReadBase(th) ==
    /\ pc[th] = "read_base"
    /\ Return(th)
    /\ UNCHANGED <<shared, lock>>

\* The tables the threads share, both of function references: slot "A", in
\* the location an instance gave it or in its own Box, with room to grow by
\* one element, and then slot "B" in its own Box, at its maximum from the
\* start.
ThreadMinimum == MaxMin
ThreadMaximum(t) == IF t = "A" THEN MaxMin + 1 ELSE MaxMin
\* Indexes: the first slot, and the slot a grow of "A" adds.  Lengths: one
\* element, and the whole of "A" once it has grown.
ThreadIndexes == {0, MaxMin}
ThreadCopyIndexes == {0}
ThreadDeltas == 0..1
ThreadLens == {1, MaxMin + 1}
ThreadReferences == {[tag |-> "FuncRef", ref |-> MaxRef],
                     [tag |-> "ExternRef", ref |-> VMExternRef_null]}

NextThreads ==
    \/ FromDefinition("A", "FuncRef", ThreadMinimum, ThreadMaximum("A"), VMLoc("A"))
    \/ New("A", "FuncRef", ThreadMinimum, ThreadMaximum("A"))
    \/ Live("A") /\ New("B", "FuncRef", ThreadMinimum, ThreadMaximum("B"))
    \/ \E th \in Threads, t \in Tables : CallSize(th, t)
    \/ \E th \in Threads, t \in Tables, delta \in ThreadDeltas :
          CallGrow(th, t, delta)
    \/ \E th \in Threads, t \in Tables, index \in ThreadIndexes :
          CallGet(th, t, index)
    \/ \E th \in Threads, t \in Tables, index \in ThreadIndexes,
          reference \in ThreadReferences : CallSet(th, t, index, reference)
    \/ \E th \in Threads, t \in Tables : CallVmtable(th, t)
    \/ \E th \in Threads, t \in Tables, src_table \in Tables,
          dst_index \in ThreadCopyIndexes, src_index \in ThreadCopyIndexes,
          len \in ThreadLens :
          CallCopy(th, t, src_table, dst_index, src_index, len)
    \/ \E th \in Threads, t \in Tables : CallReader(th, t)
    \/ \E th \in Threads : Lock(th)
    \/ \E th \in Threads : SizeRead(th)
    \/ \E th \in Threads : GrowResize(th)
    \/ \E th \in Threads : GrowElements(th)
    \/ \E th \in Threads : GrowBase(th)
    \/ \E th \in Threads : GetBody(th)
    \/ \E th \in Threads : SetBody(th)
    \/ \E th \in Threads : VmtableBody(th)
    \/ \E th \in Threads : CopySrcCheck(th)
    \/ \E th \in Threads : CopyDstCheck(th)
    \/ \E th \in Threads : CopyGet(th)
    \/ \E th \in Threads : CopySet(th)
    \/ \E th \in Threads : ReadElements(th)
    \/ \E th \in Threads : ReadBase(th)

SpecThreads == Init /\ [][NextThreads]_vars

\* The steps of a thread inside a call of a public operation.
Step(th) ==
    \/ Lock(th)
    \/ SizeRead(th)
    \/ GrowResize(th) \/ GrowElements(th) \/ GrowBase(th)
    \/ GetBody(th) \/ SetBody(th) \/ VmtableBody(th)
    \/ CopySrcCheck(th) \/ CopyDstCheck(th) \/ CopyGet(th) \/ CopySet(th)

\* SpecFair: the threads call every public operation on the two tables, with
\* the first slot as the index of get, set and copy and one element as the
\* length of copy and the delta of grow.
FairIndexes == {0}
FairDeltas == {1}
FairLens == {1}

NextFair ==
    \/ FromDefinition("A", "FuncRef", ThreadMinimum, ThreadMaximum("A"), VMLoc("A"))
    \/ Live("A") /\ New("B", "FuncRef", ThreadMinimum, ThreadMaximum("B"))
    \/ \E th \in Threads, t \in Tables : CallSize(th, t)
    \/ \E th \in Threads, t \in Tables, delta \in FairDeltas :
          CallGrow(th, t, delta)
    \/ \E th \in Threads, t \in Tables, index \in FairIndexes :
          CallGet(th, t, index)
    \/ \E th \in Threads, t \in Tables, index \in FairIndexes,
          reference \in ThreadReferences : CallSet(th, t, index, reference)
    \/ \E th \in Threads, t \in Tables : CallVmtable(th, t)
    \/ \E th \in Threads, t \in Tables, src_table \in Tables,
          dst_index \in FairIndexes, src_index \in FairIndexes,
          len \in FairLens :
          CallCopy(th, t, src_table, dst_index, src_index, len)
    \/ \E th \in Threads : Step(th)

\* Fair scheduling: a thread inside a call that can take its next step again
\* and again does take it; for a thread at lock() this means that it gets
\* the Mutex if the Mutex is free again and again.
Fairness == \A th \in Threads : SF_vars(Step(th))

SpecFair == Init /\ [][NextFair]_vars /\ Fairness

\* ================================================================== claims
\* The reference a get returned.
RefOf(r) == [tag |-> r.code, ref |-> r.n]

\* A get that returned this reference.
Returned(r, reference) == r.k = "Ref" /\ RefOf(r) = reference

\* The traps an access past the end may be reported with.
OutOfBoundsTraps == {"TableAccessOutOfBounds", "TableSetterOutOfBounds"}

\* The outcome left the vectors, the poison flags, the buffers and the
\* stored definitions as they are.
NothingChanged(o) ==
    /\ o.vec = vec
    /\ o.vec_ptr = vec_ptr
    /\ o.poisoned = poisoned
    /\ o.mem = mem

\* C1: a grow(delta) that succeeds returns the size s it found, leaves
\* size() = s + delta, every slot of [s, s + delta) reading as the null
\* reference of the table's kind, and every slot of [0, s) reading as before.
C1_GrowSucceeded ==
    \A t \in Tables, delta \in U32Inputs, moved \in BOOLEAN :
        Live(t) =>
            LET o == grow(t, delta, moved)
                s == o.ret.n
            IN  o.ret.k = "Some" =>
                    /\ s = size(t)
                    /\ size_after(o, t) = s + delta
                    /\ \A i \in s..(s + delta - 1) :
                          Returned(get(table, o.vec, o.poisoned, t, i),
                                   NullReference(table[t].ty))
                    /\ \A i \in 0..(s - 1) :
                          /\ get(table, vec, poisoned, t, i).k = "Ref"
                          /\ get(table, o.vec, o.poisoned, t, i)
                                = get(table, vec, poisoned, t, i)

\* A table that a grow has lengthened past its minimum: its last slot is
\* still null, its first holds a reference, and it can grow again.
C1_Witness ==
    \E t \in Tables :
        /\ Live(t) /\ ~poisoned[t]
        /\ Len(vec[t]) > table[t].minimum
        /\ Len(vec[t]) >= 2
        /\ vec[t][1] # VMFuncRef_null
        /\ vec[t][Len(vec[t])] = TableElement_default
        /\ size(t) = Len(vec[t])
        /\ grow(t, 1, TRUE).ret = RetSome(size(t))

\* C2: a grow(delta) whose size() + delta overflows u32 or exceeds the
\* maximum returns None and changes nothing.
C2_GrowRejected ==
    \A t \in Tables, delta \in U32Inputs, moved \in BOOLEAN :
        (/\ Live(t)
         /\ \/ size(t) + delta > U32_MAX
            \/ maximum[t] # NoMax /\ size(t) + delta > maximum[t])
        => LET o == grow(t, delta, moved)
           IN  o.ret = RetNone /\ NothingChanged(o)

\* C3: get(index) and set(index, r) with index >= size() fail with an
\* out-of-bounds trap and change nothing.
C3_OutOfBoundsAccessTraps ==
    \A t \in Tables, index \in U32Inputs, r \in TableReference :
        (Live(t) /\ index >= size(t))
        => LET g == get(table, vec, poisoned, t, index)
               w == set(table, vec, poisoned, t, index, r)
           IN  /\ g.k = "Trap" /\ g.code \in OutOfBoundsTraps
               /\ w.ret.k = "Trap" /\ w.ret.code \in OutOfBoundsTraps
               /\ w.vec = vec /\ w.poisoned = poisoned

\* C4: set(index, reference) with a reference whose tag is not the table's
\* kind returns an error to the caller (the type mismatch, when the index
\* is in bounds) and leaves the slots as they are.
C4_SetWrongKindIsAnError ==
    \A t \in Tables, index \in U32Inputs, r \in TableReference :
        (Live(t) /\ ~arm_matches(table[t].ty, r))
        => LET w == set(table, vec, poisoned, t, index, r)
           IN  /\ w.ret.k = "Trap"
               /\ index < size(t) => w.ret.code = "TableTypeMismatch"
               /\ w.vec = vec

\* C5: copy of a table into itself, both ranges in bounds, leaves slot
\* dst_index + k with the value slot src_index + k had, for every k < len,
\* and every slot outside [dst_index, dst_index + len) as it was.
C5_CopyMovesTheRange ==
    \A t \in Tables, dst_index \in U32Inputs, src_index \in U32Inputs,
       len \in U32Inputs :
        (/\ Live(t)
         /\ src_index + len <= size(t)
         /\ dst_index + len <= size(t))
        => LET o == copy(t, t, dst_index, src_index, len)
           IN  /\ Len(o.vec[t]) = Len(vec[t])
               /\ \A k \in 0..(len - 1) :
                     o.vec[t][dst_index + k + 1] = vec[t][src_index + k + 1]
               /\ \A i \in 0..(Len(vec[t]) - 1) :
                     (i < dst_index \/ i >= dst_index + len)
                     => o.vec[t][i + 1] = vec[t][i + 1]

\* C7: set(index, r) with index < size() and r of the table's kind succeeds,
\* a get(index) after it returns r, and the other slots and size() are as
\* before.
C7_SetThenGet ==
    \A t \in Tables, index \in U32Inputs, r \in TableReference :
        (Live(t) /\ index < size(t) /\ arm_matches(table[t].ty, r))
        => LET w == set(table, vec, poisoned, t, index, r)
           IN  /\ w.ret = RetOk
               /\ Returned(get(table, w.vec, w.poisoned, t, index), r)
               /\ Len(w.vec[t]) = Len(vec[t])
               /\ \A i \in 0..(Len(vec[t]) - 1) :
                     i # index => w.vec[t][i + 1] = vec[t][i + 1]

\* C10: set(index, r) with index >= size() is reported with the trap
\* TableSetterOutOfBounds.
C10_SetPastTheEndIsSetterTrap ==
    \A t \in Tables, index \in U32Inputs, r \in TableReference :
        (Live(t) /\ index >= size(t))
        => set(table, vec, poisoned, t, index, r).ret
              = RetTrap("TableSetterOutOfBounds")

\* C6: a copy whose source range ends past the source table's size, or whose
\* destination range ends past the destination table's size, fails with a
\* trap and leaves every slot of both tables as it was.
C6_CopyOutOfBoundsChangesNothing ==
    \A t \in Tables, src_table \in Tables, dst_index \in CopyInputs,
       src_index \in CopyInputs, len \in CopyInputs :
        (/\ Live(t) /\ Live(src_table)
         /\ \/ src_index + len > size(src_table)
            \/ dst_index + len > size(t))
        => LET o == copy(t, src_table, dst_index, src_index, len)
           IN  o.ret.k = "Trap" /\ NothingChanged(o)

\* Two tables that hold references, the longer one's range too long for the
\* shorter one: the copy in either direction is refused.
C6_Witness ==
    /\ Live("A") /\ Live("B")
    /\ size("A") < size("B")
    /\ \E i \in 1..Len(vec["A"]) : vec["A"][i] # VMFuncRef_null
    /\ \E i \in 1..Len(vec["B"]) : vec["B"][i] # VMFuncRef_null
    /\ copy("A", "B", 0, 0, size("B")).ret = RetTrap("TableSetterOutOfBounds")
    /\ copy("B", "A", 0, 0, size("B")).ret = RetTrap("TableAccessOutOfBounds")

\* A description new_inner accepts.
ValidDescription(ty, min, max) ==
    /\ ty \in {"FuncRef", "ExternRef"}
    /\ max = NoMax \/ max >= min

\* C8: for a description of a supported kind whose maximum is absent or at
\* least its minimum, new and from_definition succeed, and the new table has
\* size() = minimum and every slot of [0, minimum) reading as the null
\* reference of its kind.
C8_NewTableIsNullAtMinimum ==
    \A t \in Tables, ty \in ValTypes, min \in Minimums, max \in Maximums :
      \A loc \in {NoLoc, VMLoc(t)} :
        (~Live(t) /\ ValidDescription(ty, min, max))
        => LET n == new_inner(t, ty, min, max, loc)
               T == [table EXCEPT ![t] = n.table]
               V == [vec EXCEPT ![t] = n.vec]
               P == [poisoned EXCEPT ![t] = n.poisoned]
           IN  /\ n.ret = RetOk
               /\ n.table # NoTable
               /\ n.mem[n.vm_table_definition.addr].current_elements = min
               /\ \A i \in 0..(min - 1) :
                     Returned(get(T, V, P, t, i), NullReference(ty))

\* A table of opaque references as from_definition leaves it: in the
\* location it was given, at its minimum, every slot null.
C8_Witness ==
    \E t \in Tables :
        /\ Live(t)
        /\ table[t].ty = "ExternRef"
        /\ vm_table_definition[t] = [own |-> "VMOwned", addr |-> VMLoc(t)]
        /\ table[t].minimum >= 1
        /\ size(t) = table[t].minimum
        /\ vec_ptr[t] = BufPtr(t, 0)
        /\ \A i \in 0..(size(t) - 1) :
              Returned(get(table, vec, poisoned, t, i), NullReference("ExternRef"))

\* C9: for a description whose kind is neither funcref nor externref, or
\* whose maximum is below its minimum, new and from_definition return an
\* error, there is no table, and no stored definition is written, the one
\* at the location given to from_definition included.
C9_BadDescriptionIsRefused ==
    \A t \in Tables, ty \in ValTypes, min \in Minimums, max \in Maximums :
      \A loc \in {NoLoc, VMLoc(t)} :
        (~Live(t) /\ ~ValidDescription(ty, min, max))
        => LET n == new_inner(t, ty, min, max, loc)
           IN  /\ n.ret.k = "Err"
               /\ n.table = NoTable
               /\ n.mem = mem

\* Beside a table that holds a reference, an empty slot whose location is
\* still as the instance left it, with a description of each refused sort.
C9_Witness ==
    \E t \in Tables, u \in Tables :
        /\ Live(u) /\ size(u) >= 1 /\ vec[u][1] # VMFuncRef_null
        /\ ~Live(t)
        /\ mem[VMLoc(t)] = UninitDefinition
        /\ new_inner(t, "I32", 1, NoMax, VMLoc(t)).ret.k = "Err"
        /\ new_inner(t, "FuncRef", 1, 0, VMLoc(t)).ret.k = "Err"
        /\ new_inner(t, "FuncRef", 1, 0, VMLoc(t)).mem = mem

\* C11: in every reachable state grow(0) returns Some(size()) and leaves
\* size() and every slot as they are.
C11_GrowByZeroSucceeds ==
    \A t \in Tables, moved \in BOOLEAN :
        Live(t) =>
            LET o == grow(t, 0, moved)
            IN  /\ o.ret = RetSome(size(t))
                /\ size_after(o, t) = size(t)
                /\ o.vec = vec

\* Where a thread holds the lock it took in the call it is making.
HoldingPcs == {"grow_resize", "grow_elements", "grow_base", "get", "set",
               "vmtable", "copy_get", "copy_set"}

\* C12: the lock of a table is held only by a thread inside the call that
\* took it, and once a call has ended the lock is usable: it is not left
\* poisoned, so the next lock() on it succeeds.
C12_LockIsReleasedAndUsable ==
    \A t \in Tables :
        Live(t) =>
            /\ \A th \in Threads : lock[t] = th => pc[th] \in HoldingPcs
            /\ ~poisoned[t]

\* C13: whenever no thread holds a table's lock, the stored definition has
\* current_elements equal to the number of elements of the Vec and base equal
\* to the address of the Vec's buffer.
C13_LayoutMatchesStorage ==
    \A t \in Tables :
        (Live(t) /\ lock[t] = NoThread) =>
            /\ size(t) = Len(vec[t])
            /\ mem[get_vm_table_definition(t)].base = vec_ptr[t]

\* A host-owned table that a grow has lengthened and moved, a reference in
\* it, its lock free again, while the other table's lock is held.
C13_Witness ==
    /\ Live("A") /\ Live("B")
    /\ vm_table_definition["A"].own = "HostOwned"
    /\ lock["A"] = NoThread /\ lock["B"] # NoThread
    /\ Len(vec["A"]) > table["A"].minimum
    /\ vec_ptr["A"].gen > 0
    /\ vec["A"][1] # VMFuncRef_null
    /\ mem[BoxLoc("A")] = [base |-> vec_ptr["A"], current_elements |-> Len(vec["A"])]

\* C14: a reader that has read current_elements without the lock and is
\* about to read base obtains the address of the Vec's present buffer (not
\* of one a reallocation released), and that buffer holds as many elements
\* as the current_elements it read.
C14_ReaderObtainsMatchingPair ==
    \A th \in Threads :
        pc[th] = "read_base" =>
            LET t == frame[th].t
            IN  /\ mem[get_vm_table_definition(t)].base = vec_ptr[t]
                /\ frame[th].n = Len(vec[t])

\* Where a thread's next step reads or writes the Vec or the stored
\* definition, and the table it does so on.
AccessPcs == HoldingPcs \cup {"size", "copy_src", "copy_dst"}

AccessTable(th) ==
    IF pc[th] \in {"copy_src", "copy_get"} THEN frame[th].src_table
    ELSE frame[th].t

\* C15: a thread about to read or write the Vec or the stored definition in
\* a public operation holds the table's lock; size(), on its own and in
\* copy's two tests, among them.
C15_EveryAccessHoldsTheLock ==
    \A th \in Threads :
        pc[th] \in AccessPcs => lock[AccessTable(th)] = th

\* C16: a copy with src_index + len or dst_index + len of 2^32 or more fails
\* with an out-of-bounds trap and changes nothing, also when the sum taken
\* modulo 2^32 is within the table's size.
C16_CopyOverflowIsOutOfBounds ==
    \A t \in Tables, src_table \in Tables :
        (Live(t) /\ Live(src_table)) =>
            \A index \in CopyInputs, len \in CopyInputs :
                index + len > U32_MAX =>
                    \A other \in CopyInputs :
                        LET s == copy(t, src_table, other, index, len)
                            d == copy(t, src_table, index, other, len)
                        IN  /\ s.ret.k = "Trap" /\ d.ret.k = "Trap"
                            /\ s.ret.code \in OutOfBoundsTraps
                            /\ d.ret.code \in OutOfBoundsTraps
                            /\ NothingChanged(s) /\ NothingChanged(d)

\* Two tables that hold references, and ranges whose ends wrap to 0, which
\* is within both sizes: each copy is refused.
C16_Witness ==
    /\ Live("A") /\ Live("B")
    /\ \E i \in 1..Len(vec["A"]) : vec["A"][i] # VMFuncRef_null
    /\ \E i \in 1..Len(vec["B"]) : vec["B"][i] # VMFuncRef_null
    /\ (U32_MAX + 1) % (U32_MAX + 1) <= size("A")
    /\ copy("A", "B", 0, U32_MAX, 1).ret = RetTrap("TableAccessOutOfBounds")
    /\ copy("A", "B", U32_MAX, 0, 1).ret = RetTrap("TableSetterOutOfBounds")
    /\ copy("A", "A", 1, U32_MAX, 1).ret.k = "Trap"

\* C17: copy tests the source range first and names the range that failed:
\* TableAccessOutOfBounds when src_index + len > src_table.size(), whatever
\* the destination range; TableSetterOutOfBounds when only dst_index + len >
\* self.size(); and with len = 0 it succeeds exactly when src_index <=
\* src_table.size() and dst_index <= self.size().
C17_CopyNamesTheRangeSourceFirst ==
    \A t \in Tables, src_table \in Tables, dst_index \in CopyInputs,
       src_index \in CopyInputs, len \in CopyInputs :
        (Live(t) /\ Live(src_table))
        => LET o == copy(t, src_table, dst_index, src_index, len)
           IN  /\ src_index + len > size(src_table)
                  => o.ret = RetTrap("TableAccessOutOfBounds")
               /\ (/\ src_index + len <= size(src_table)
                   /\ dst_index + len > size(t))
                  => o.ret = RetTrap("TableSetterOutOfBounds")
               /\ len = 0
                  => (o.ret = RetOk <=> /\ src_index <= size(src_table)
                                        /\ dst_index <= size(t))

\* Two tables of different sizes, a reference in the shorter: a copy with
\* both ranges too long, one with only the destination range too long, and
\* empty copies at and past the ends.
C17_Witness ==
    /\ Live("A") /\ Live("B")
    /\ size("A") < size("B")
    /\ vec["A"][1] # VMFuncRef_null
    /\ copy("A", "B", size("A"), size("B"), 1).ret
          = RetTrap("TableAccessOutOfBounds")
    /\ copy("A", "B", size("A"), 0, 1).ret = RetTrap("TableSetterOutOfBounds")
    /\ copy("A", "B", size("A"), size("B"), 0).ret = RetOk
    /\ copy("A", "B", size("B"), 0, 0).ret = RetTrap("TableSetterOutOfBounds")

\* C18: once copy's two tests have passed, the get and the set of every pass
\* of its loop find their index within the Vec: get returns a reference, so
\* unwrap does not panic, and set returns no out-of-bounds trap, whatever
\* the other threads' grow, set and copy have done meanwhile.
C18_CopyLoopStaysInBounds ==
    \A th \in Threads :
        /\ pc[th] = "copy_get"
           => get(table, vec, poisoned, frame[th].src_table,
                  copy_pair(frame[th])[1]).k = "Ref"
        /\ pc[th] = "copy_set"
           => set(table, vec, poisoned, frame[th].t, copy_pair(frame[th])[2],
                  frame[th].reference).ret.k # "Trap"

\* A copy in the last of several passes, writing the slot a grow added,
\* while the other thread is inside a set or a copy on the same table.
C18_Witness ==
    \E th \in Threads, o \in Threads :
        /\ o # th
        /\ pc[th] = "copy_set" /\ frame[th].k > 1
        /\ Len(vec[frame[th].t]) > table[frame[th].t].minimum
        /\ copy_pair(frame[th])[2] = Len(vec[frame[th].t]) - 1
        /\ frame[o].op \in {"set", "copy"} /\ frame[o].t = frame[th].t
        /\ pc[o] \in LockPcs

\* A copy that has moved an element and has more to move.
MidCopy(th) == frame[th].op = "copy" /\ frame[th].k > 1

\* C19: while a thread's copy is between two element moves, no get, set or
\* copy of another thread is at work under the lock of that copy's
\* destination table.
C19_CopyIsAllOrNothing ==
    \A th \in Threads, o \in Threads :
        (o # th /\ MidCopy(th))
        => ~(/\ frame[o].op \in {"get", "set", "copy"}
             /\ pc[o] \in HoldingPcs
             /\ AccessTable(o) = frame[th].t)

C21_SizeWithinLimitsAndNeverShrinks ==
    /\ [](\A t \in Tables :
            Live(t) =>
                /\ table[t].minimum <= size(t)
                /\ maximum[t] # NoMax => size(t) <= maximum[t])
    /\ [][\A t \in Tables :
            Live(t) =>
                mem'[vm_table_definition'[t].addr].current_elements >= size(t)]_vars

\* A table grown to its maximum by one thread's grow, while one thread is
\* inside a further grow of it, holding the lock, and the other waits to
\* grow it too.
C21_Witness ==
    \E th \in Threads, o \in Threads, t \in Tables :
        /\ o # th /\ Live(t)
        /\ size(t) > table[t].minimum /\ size(t) = maximum[t]
        /\ pc[th] = "grow_resize" /\ frame[th].t = t /\ frame[th].arg > 0
        /\ pc[o] = "grow_lock" /\ frame[o].t = t /\ frame[o].arg > 0

\* The address a constructor fixes for the definition of table t: the
\* location it was given, or the Box it allocated.
FixedAddr(t) ==
    IF vm_table_definition[t].own = "VMOwned" THEN VMLoc(t) ELSE BoxLoc(t)

\* C22: a table's ownership mode and the address of its definition are
\* fixed at construction.  Every vmtable() that returns, returns that
\* address (for a VM-owned table the location given to from_definition),
\* and the constructor has initialised the definition there.  No step
\* changes the mode or the address, and the only steps that write a
\* definition are the constructor, at the address it fixes, and the two
\* writes of a successful grow, at the address of the table it grows: set,
\* get, copy, a rejected grow, size and vmtable write none.
C22_LayoutAddressIsFixed ==
    /\ [](\A t \in Tables :
            Live(t) =>
                /\ vm_table_definition[t].own \in {"VMOwned", "HostOwned"}
                /\ vmtable(t).ret.k = "Ptr" => vmtable(t).ret.ptr = FixedAddr(t)
                /\ mem[FixedAddr(t)].base # NullPtr)
    /\ [][/\ \A t \in Tables :
                Live(t) => vm_table_definition'[t] = vm_table_definition[t]
          /\ \A a \in DefinitionAddrs :
                mem'[a] # mem[a] =>
                    \/ \E t \in Tables :
                          ~Live(t) /\ a = vm_table_definition'[t].addr
                    \/ \E th \in Threads :
                          /\ pc[th] \in {"grow_elements", "grow_base"}
                          /\ pc'[th] # pc[th]
                          /\ a = vm_table_definition[frame[th].t].addr]_vars

\* A VM-owned table that a grow has lengthened and moved, its definition
\* updated in the location it was given, a reference in it, and a thread
\* inside vmtable() on it.
C22_Witness ==
    \E th \in Threads, t \in Tables :
        /\ Live(t)
        /\ vm_table_definition[t] = [own |-> "VMOwned", addr |-> VMLoc(t)]
        /\ size(t) > table[t].minimum
        /\ vec_ptr[t].gen > 0
        /\ mem[VMLoc(t)] = [base |-> vec_ptr[t], current_elements |-> Len(vec[t])]
        /\ vec[t][1] # VMFuncRef_null
        /\ pc[th] = "vmtable" /\ frame[th].t = t /\ lock[t] = th

====
